---- MODULE Spec2Model ----
(***************************************************************************)
(* Model of autostar.py: the read-position tracker (process_read_update),  *)
(* the range resolver (get_messages_in_range) and the reaction dispatcher  *)
(* (add_reaction), with one asyncio task per incoming read update.         *)
(***************************************************************************)
EXTENDS Integers, Sequences, FiniteSets, TLC

\* ---------------------------------------------------------------- bounds
MaxId      == 3   \* message ids are 1..MaxId
MaxSignals == 2   \* read updates delivered over one run (one task each)
MaxBurst   == 3   \* read updates of one chat delivered over one run of SpecBurst
MaxFlood   == 2   \* FloodWaitError responses per add_reaction invocation
MaxWait    == 2   \* largest FloodWaitError.seconds
MaxStart   == 1   \* largest read position a dialog reports at startup
MaxExact   == 4   \* message ids are 1..MaxExact in SpecExact

Ids == 1..MaxId

\* Conversations: 1 and 2 are watched, 3 is not (WATCH_CHATS = "1,2").
Peers      == {1, 2, 3}
watch_list == {1, 2}

\* Reaction policy the backend holds for each conversation: conversation 2
\* restricts reactions to a set that does not contain REACTION.
RestrictedPeers == {2}

\* Results of one SendReactionRequest.
Terminal == {"ReactionInvalidError", "MsgIdInvalidError",
             "ChatAdminRequiredError", "ChannelPrivateError", "Exception"}
Kinds    == {"Success", "FloodWaitError"} \cup Terminal

VARIABLES
  last_read_ids,     \* [Peers -> Nat], the defaultdict(int)
  starred_messages,  \* set of <<peer_id, msg_id>>
  update_lock,       \* 0 when free, else the task holding it
  task,              \* [Tasks -> record], the frame of each handler task
  dispatched,        \* history: <<peer_id, msg_id>> of each add_reaction
                     \* invocation made by process_read_update, in order
  rejected,          \* history: peers whose request raised ReactionInvalidError
  policy_queries,    \* history: reaction-policy requests sent, per peer
  dialogs,           \* initialize_read_positions: dialogs still to be visited
  start_read_ids,    \* history: the position initialize_read_positions
                     \* recorded for each peer (0 when it recorded none)
  first_read_ids,    \* history: the first non-zero position recorded for
                     \* each peer (0 when none was)
  history            \* the backend: the message ids that exist in each chat

vars == <<last_read_ids, starred_messages, update_lock, task,
          dispatched, rejected, policy_queries, dialogs, start_read_ids,
          first_read_ids, history>>

\* the handler tasks of the run
Tasks == DOMAIN task

\* ------------------------------------------------------- pure functions
should_watch(peer_id) ==
  IF watch_list = {} THEN TRUE ELSE peer_id \in watch_list

\* mutant: the lower end of the window is taken as inclusive
InRange_Inclusive(from_id, to_id, id) == from_id <= id /\ id <= to_id

\* the test of line 142
InRange(from_id, to_id, id) == from_id < id /\ id <= to_id

RECURSIVE Insert(_, _)
Insert(x, s) ==
  IF s = <<>> THEN <<x>>
  ELSE IF x <= Head(s) THEN <<x>> \o s
  ELSE <<Head(s)>> \o Insert(x, Tail(s))

\* mutant: the result is returned in the order the backend yielded it
sorted_Unsorted(s) == s

\* mutant: the result is sorted newest first
RECURSIVE sorted_Reverse(_)
sorted_Reverse(s) ==
  IF s = <<>> THEN <<>>
  ELSE LET x == CHOOSE y \in {s[i] : i \in DOMAIN s} :
                  \A i \in DOMAIN s : s[i] <= y
       IN  <<x>> \o sorted_Reverse(SelectSeq(s, LAMBDA z : z # x))

RECURSIVE sorted(_)
sorted(s) == IF s = <<>> THEN <<>> ELSE Insert(Head(s), sorted(Tail(s)))

\* the fallback of lines 147-151
Fallback(message_ids, from_id, to_id) ==
  IF to_id > from_id THEN <<to_id>> ELSE message_ids

\* mutant: an empty result is replaced by the upper end as well
get_messages_in_range_OrEndpoint(yielded, failed, from_id, to_id) ==
  LET appended == SelectSeq(yielded, LAMBDA id : InRange(from_id, to_id, id))
      message_ids == IF failed \/ appended = <<>>
                     THEN Fallback(appended, from_id, to_id)
                     ELSE appended
  IN  sorted(message_ids)

\* yielded: the ids iter_messages yielded, in the backend's order, before it
\* finished or raised; failed: whether it raised.
get_messages_in_range(yielded, failed, from_id, to_id) ==
  LET appended == SelectSeq(yielded, LAMBDA id : InRange(from_id, to_id, id))
      message_ids == IF failed THEN Fallback(appended, from_id, to_id)
                     ELSE appended
  IN  sorted(message_ids)

\* mutant: the starred pairs are not filtered out
NotStarred_Unfiltered(peer_id, message_ids, starred) == message_ids

\* lines 185-188
NotStarred(peer_id, message_ids, starred) ==
  SelectSeq(message_ids, LAMBDA msg_id : <<peer_id, msg_id>> \notin starred)

\* lines 196-197
MarkStarred(peer_id, messages_to_star, starred) ==
  starred \cup {<<peer_id, messages_to_star[i]>> : i \in DOMAIN messages_to_star}

\* mutant: an update equal to the recorded position is not taken as stale
Stale_Strict(max_id, last_read) == max_id < last_read

\* line 166
Stale(max_id, last_read) == max_id <= last_read

\* mutant: a recorded position of 0 is not taken as a first sight
FirstSeen_Negative(last_read) == last_read < 0

\* line 172
FirstSeen(last_read) == last_read = 0

\* the first non-zero position of a peer, once position is recorded for it
FirstRecorded(first_ids, peer_id, position) ==
  IF first_ids[peer_id] = 0 THEN [first_ids EXCEPT ![peer_id] = position]
  ELSE first_ids

\* line 170
Advance(read_ids, peer_id, max_id) == [read_ids EXCEPT ![peer_id] = max_id]

\* mutant: the catch-all handler retries as well
Retried_Any(kind) == kind \in {"FloodWaitError", "Exception"}

\* add_reaction: which results lead to the recursive call of line 123
Retried(kind) == kind = "FloodWaitError"

\* mutant: the catch-all handler returns True
Returned_Lenient(kind) == kind \in {"Success", "Exception"}

\* add_reaction: the value returned for a result that ends the invocation
Returned(kind) == kind = "Success"

\* the argument of asyncio.sleep at line 122
SleepFor(seconds) == seconds

\* mutant: the dispatch loop is indented into the with block
Released_Held(h) == h

\* lines 163 and 199: the holder of update_lock once task h has left the
\* with block
Released(h) == 0

\* mutant: the upper end of the window is passed as it is
WindowMax_Same(to_id) == to_id

\* line 140: the max_id passed to iter_messages
WindowMax(to_id) == to_id + 1

RECURSIVE NewestFirst(_)
NewestFirst(S) ==
  IF S = {} THEN <<>>
  ELSE LET x == CHOOSE y \in S : \A z \in S : z <= y
       IN  <<x>> \o NewestFirst(S \ {x})

\* lines 137-141: what client.iter_messages(peer, min_id, max_id) yields when
\* it does not fail: the existing ids strictly between, newest first
iter_messages(existing, min_id, max_id) ==
  NewestFirst({ id \in existing : min_id < id /\ id < max_id })

\* every sequence of distinct ids: what iter_messages may yield
Responses ==
  UNION { { s \in [1..Cardinality(S) -> S] :
              \A i, j \in 1..Cardinality(S) : i # j => s[i] # s[j] } :
          S \in SUBSET Ids }

\* ------------------------------------------------------------- state
\* The frame of a handler task.  peer_id, max_id and path (the way the
\* handler left the critical section) are kept once the task is over; the
\* other fields are locals and are reset when they go out of scope.
IdleTask ==
  [pc |-> "idle", peer_id |-> 0, max_id |-> 0, path |-> "none",
   last_read |-> 0, yielded |-> <<>>, failed |-> FALSE, message_ids |-> <<>>,
   messages_to_star |-> <<>>, idx |-> 0, reacted |-> <<>>,
   request |-> <<>>, calls |-> 0, floods |-> 0, result |-> "none",
   seconds |-> 0, sleep_for |-> 0, ret |-> "none"]

\* the frame of a handler that has returned by the given path
Over(t, path) ==
  [IdleTask EXCEPT !.pc = "done", !.peer_id = t.peer_id,
                   !.max_id = t.max_id, !.path = path]

\* The state when main() calls client.start(): nothing is recorded,
\* initialize_read_positions has the dialogs ds still to visit and n read
\* updates are to come.  The chats' histories are fixed apart.
InitWith(n, ds) ==
  /\ last_read_ids = [p \in Peers |-> 0]
  /\ start_read_ids = [p \in Peers |-> 0]
  /\ first_read_ids = [p \in Peers |-> 0]
  /\ starred_messages = {}
  /\ update_lock = 0
  /\ task = [h \in 1..n |-> IdleTask]
  /\ dispatched = <<>>
  /\ rejected = {}
  /\ policy_queries = [p \in Peers |-> 0]
  /\ dialogs = ds

Init == InitWith(MaxSignals, Peers) /\ history = [p \in Peers |-> Ids]

\* ------------------------------------------------------------ actions
\* handle_raw_update: a read update arrives and its handler task is created
\* (tasks are numbered in order of arrival).  A channel update whose
\* get_entity fails never reaches process_read_update and is no update here.
HandleRawUpdate(h, peer_id, max_id) ==
  /\ task[h].pc = "idle"
  /\ \A g \in Tasks : g < h => task[g].pc # "idle"
  /\ task' = [task EXCEPT ![h] = [@ EXCEPT !.pc = "started",
                                           !.peer_id = peer_id,
                                           !.max_id = max_id]]
  /\ UNCHANGED <<last_read_ids, starred_messages, update_lock,
                 dispatched, rejected, policy_queries, dialogs, start_read_ids,
                 first_read_ids, history>>

\* lines 158-159
ReturnUnwatched(h) ==
  /\ task[h].pc = "started"
  /\ ~should_watch(task[h].peer_id)
  /\ task' = [task EXCEPT ![h] = Over(@, "unwatched")]
  /\ UNCHANGED <<last_read_ids, starred_messages, update_lock,
                 dispatched, rejected, policy_queries, dialogs, start_read_ids,
                 first_read_ids, history>>

\* lines 163-167: the lock is taken, the update is stale, the lock is released
ReturnStale(h) ==
  LET t == task[h] IN
  /\ t.pc = "started"
  /\ should_watch(t.peer_id)
  /\ update_lock = 0
  /\ Stale(t.max_id, last_read_ids[t.peer_id])
  /\ task' = [task EXCEPT ![h] = Over(@, "stale")]
  /\ UNCHANGED <<last_read_ids, starred_messages, update_lock,
                 dispatched, rejected, policy_queries, dialogs, start_read_ids,
                 first_read_ids, history>>

\* lines 163-175: first update of a chat with no recorded position
ReturnFirstSeen(h) ==
  LET t == task[h] IN
  /\ t.pc = "started"
  /\ should_watch(t.peer_id)
  /\ update_lock = 0
  /\ ~Stale(t.max_id, last_read_ids[t.peer_id])
  /\ FirstSeen(last_read_ids[t.peer_id])
  /\ last_read_ids' = Advance(last_read_ids, t.peer_id, t.max_id)
  /\ first_read_ids' = FirstRecorded(first_read_ids, t.peer_id, t.max_id)
  /\ task' = [task EXCEPT ![h] = Over(@, "first_seen")]
  /\ UNCHANGED <<starred_messages, update_lock,
                 dispatched, rejected, policy_queries, dialogs, start_read_ids,
                 history>>

\* lines 163-178: the position advances and get_messages_in_range is called
\* and suspends in iter_messages, with the lock held
StartFetch(h) ==
  LET t == task[h] IN
  /\ t.pc = "started"
  /\ should_watch(t.peer_id)
  /\ update_lock = 0
  /\ ~Stale(t.max_id, last_read_ids[t.peer_id])
  /\ ~FirstSeen(last_read_ids[t.peer_id])
  /\ update_lock' = h
  /\ last_read_ids' = Advance(last_read_ids, t.peer_id, t.max_id)
  /\ task' = [task EXCEPT ![h] = [@ EXCEPT !.pc = "fetching",
                                  !.last_read = last_read_ids[t.peer_id]]]
  /\ UNCHANGED <<starred_messages, dispatched, rejected, policy_queries,
                 dialogs, start_read_ids,
                 first_read_ids, history>>

\* lines 200-201 and 101-105: the loop invokes add_reaction(peer, msg_id) for
\* the i-th selected id, which issues its SendReactionRequest; t is the frame
\* of the handler
AddReaction(t, i) ==
  [t EXCEPT !.pc = "sending", !.idx = i,
            !.reacted = Append(@, t.messages_to_star[i]),
            !.request = <<t.peer_id, t.messages_to_star[i]>>,
            !.calls = 1, !.floods = 0, !.result = "none", !.seconds = 0,
            !.ret = "none"]

\* lines 137-201: iter_messages finishes or raises; the ids are filtered,
\* sorted, deduplicated and marked, the lock is released and, with no
\* suspension in between, add_reaction is invoked for the first selected id
FinishFetch(h, yielded, failed) ==
  LET t == task[h]
      message_ids == get_messages_in_range(yielded, failed, t.last_read, t.max_id)
      messages_to_star == NotStarred(t.peer_id, message_ids, starred_messages)
      path == IF message_ids = <<>> THEN "empty"
              ELSE IF messages_to_star = <<>> THEN "all_starred"
              ELSE "selected"
      frame == [t EXCEPT !.path = path,
                         !.yielded = yielded, !.failed = failed,
                         !.message_ids = message_ids,
                         !.messages_to_star = messages_to_star]
  IN
  /\ t.pc = "fetching"
  /\ update_lock = h
  /\ update_lock' = Released(h)
  /\ starred_messages' = MarkStarred(t.peer_id, messages_to_star, starred_messages)
  /\ task' = [task EXCEPT ![h] = IF path = "selected"
                                 THEN AddReaction(frame, 1)
                                 ELSE [frame EXCEPT !.pc = "return"]]
  /\ dispatched' = IF path = "selected"
                   THEN Append(dispatched, <<t.peer_id, messages_to_star[1]>>)
                   ELSE dispatched
  /\ UNCHANGED <<last_read_ids, rejected, policy_queries, dialogs,
                 start_read_ids, first_read_ids, history>>

\* lines 182 and 191: the handler returns with nothing to star
ReturnNothing(h) ==
  LET t == task[h] IN
  /\ t.pc = "return"
  /\ task' = [task EXCEPT ![h] = Over(@, t.path)]
  /\ UNCHANGED <<last_read_ids, starred_messages, update_lock,
                 dispatched, rejected, policy_queries, dialogs, start_read_ids,
                 first_read_ids, history>>

\* lines 106-126: the request returns or raises; add_reaction returns, or
\* sleeps before calling itself
SendResponds(h, kind, seconds) ==
  LET t == task[h]
      frame == [t EXCEPT !.yielded = <<>>, !.failed = FALSE,
                         !.message_ids = <<>>,
                         !.floods = IF kind = "FloodWaitError" THEN @ + 1 ELSE @,
                         !.result = kind, !.seconds = seconds]
  IN
  /\ t.pc = "sending"
  /\ (kind = "FloodWaitError") => t.floods < MaxFlood
  /\ (kind # "FloodWaitError") => seconds = 0
  /\ (kind = "FloodWaitError") => seconds > 0
  /\ task' = [task EXCEPT ![h] =
       IF Retried(kind)
       THEN [frame EXCEPT !.pc = "flood_sleep",
                          !.sleep_for = SleepFor(seconds)]
       ELSE [frame EXCEPT !.pc = "delay", !.ret = Returned(kind)]]
  /\ rejected' = IF kind = "ReactionInvalidError"
                 THEN rejected \cup {t.peer_id} ELSE rejected
  /\ UNCHANGED <<last_read_ids, starred_messages, update_lock,
                 dispatched, policy_queries, dialogs, start_read_ids,
                 first_read_ids, history>>

\* line 123: the sleep is over and add_reaction calls itself with its own
\* arguments
Retry(h) ==
  LET t == task[h] IN
  /\ t.pc = "flood_sleep"
  /\ task' = [task EXCEPT ![h] = [@ EXCEPT !.pc = "sending", !.calls = @ + 1,
                                  !.request = t.request, !.sleep_for = 0]]
  /\ UNCHANGED <<last_read_ids, starred_messages, update_lock,
                 dispatched, rejected, policy_queries, dialogs, start_read_ids,
                 first_read_ids, history>>

\* mutant: the loop is left when add_reaction returns False
NextMessage_StopOnFailure(h) ==
  LET t == task[h]
      more == t.idx < Len(t.messages_to_star) /\ t.ret = TRUE
  IN
  /\ t.pc = "delay"
  /\ task' = [task EXCEPT ![h] = IF more THEN AddReaction(t, t.idx + 1)
                                 ELSE Over(t, t.path)]
  /\ dispatched' = IF more
                   THEN Append(dispatched,
                               <<t.peer_id, t.messages_to_star[t.idx + 1]>>)
                   ELSE dispatched
  /\ UNCHANGED <<last_read_ids, starred_messages, update_lock,
                 rejected, policy_queries, dialogs, start_read_ids,
                 first_read_ids, history>>

\* lines 202 and 200-201: the delay is over; add_reaction is invoked for the
\* next selected id, or the handler ends
NextMessage(h) ==
  LET t == task[h]
      more == t.idx < Len(t.messages_to_star)
  IN
  /\ t.pc = "delay"
  /\ task' = [task EXCEPT ![h] = IF more THEN AddReaction(t, t.idx + 1)
                                 ELSE Over(t, t.path)]
  /\ dispatched' = IF more
                   THEN Append(dispatched,
                               <<t.peer_id, t.messages_to_star[t.idx + 1]>>)
                   ELSE dispatched
  /\ UNCHANGED <<last_read_ids, starred_messages, update_lock,
                 rejected, policy_queries, dialogs, start_read_ids,
                 first_read_ids, history>>

\* lines 229-239: initialize_read_positions visits one dialog and records
\* the read position it reports (read_inbox_max_id, else the last message id)
InitializeReadPosition(peer_id, position) ==
  /\ peer_id \in dialogs
  /\ dialogs' = dialogs \ {peer_id}
  /\ last_read_ids' = IF should_watch(peer_id)
                      THEN [last_read_ids EXCEPT ![peer_id] = position]
                      ELSE last_read_ids
  /\ start_read_ids' = IF should_watch(peer_id)
                       THEN [start_read_ids EXCEPT ![peer_id] = position]
                       ELSE start_read_ids
  /\ first_read_ids' = IF should_watch(peer_id) /\ position # 0
                       THEN FirstRecorded(first_read_ids, peer_id, position)
                       ELSE first_read_ids
  /\ UNCHANGED <<starred_messages, update_lock, task, dispatched, rejected,
                 policy_queries, history>>

\* the whole run: handlers are registered while the positions are initialized
Next ==
  \/ \E h \in Tasks, peer_id \in Peers, max_id \in Ids :
       HandleRawUpdate(h, peer_id, max_id)
  \/ \E h \in Tasks : ReturnUnwatched(h)
  \/ \E h \in Tasks : ReturnStale(h)
  \/ \E h \in Tasks : ReturnFirstSeen(h)
  \/ \E h \in Tasks : StartFetch(h)
  \/ \E h \in Tasks, yielded \in Responses, failed \in BOOLEAN :
       FinishFetch(h, yielded, failed)
  \/ \E h \in Tasks : ReturnNothing(h)
  \/ \E h \in Tasks, kind \in Kinds, seconds \in 0..MaxWait :
       SendResponds(h, kind, seconds)
  \/ \E h \in Tasks : Retry(h)
  \/ \E h \in Tasks : NextMessage(h)
  \/ \E peer_id \in Peers, position \in 0..MaxStart :
       InitializeReadPosition(peer_id, position)

Spec == Init /\ [][Next]_vars

\* A burst of read updates of one watched chat, delivered while its position
\* is initialized.
BurstPeers == {1}

InitBurst == InitWith(MaxBurst, BurstPeers) /\ history = [p \in Peers |-> Ids]

NextBurst ==
  \/ \E h \in Tasks, peer_id \in BurstPeers, max_id \in Ids :
       HandleRawUpdate(h, peer_id, max_id)
  \/ \E h \in Tasks : ReturnStale(h)
  \/ \E h \in Tasks : ReturnFirstSeen(h)
  \/ \E h \in Tasks : StartFetch(h)
  \/ \E h \in Tasks, yielded \in Responses, failed \in BOOLEAN :
       FinishFetch(h, yielded, failed)
  \/ \E h \in Tasks : ReturnNothing(h)
  \/ \E h \in Tasks, kind \in Kinds, seconds \in 0..MaxWait :
       SendResponds(h, kind, seconds)
  \/ \E h \in Tasks : Retry(h)
  \/ \E h \in Tasks : NextMessage(h)
  \/ \E peer_id \in BurstPeers, position \in 0..MaxStart :
       InitializeReadPosition(peer_id, position)

SpecBurst == InitBurst /\ [][NextBurst]_vars

\* A burst of read updates of one watched chat whose history is fixed and
\* whose iter_messages never fails: it yields the existing ids of the window.
\* The chat holds message 1 and any of the later ids.
ExactIds == 1..MaxExact

InitExact ==
  /\ InitWith(MaxBurst, BurstPeers)
  /\ history \in [Peers -> SUBSET ExactIds]
  /\ \A p \in BurstPeers : 1 \in history[p]
  /\ \A p \in Peers \ BurstPeers : history[p] = {}

\* lines 137-141: iter_messages(peer, min_id=from_id, max_id=to_id + 1) ends
FetchExact(h) ==
  FinishFetch(h, iter_messages(history[task[h].peer_id], task[h].last_read,
                               WindowMax(task[h].max_id)), FALSE)

NextExact ==
  \/ \E h \in Tasks, peer_id \in BurstPeers, max_id \in ExactIds :
       HandleRawUpdate(h, peer_id, max_id)
  \/ \E h \in Tasks : ReturnStale(h)
  \/ \E h \in Tasks : ReturnFirstSeen(h)
  \/ \E h \in Tasks : StartFetch(h)
  \/ \E h \in Tasks : FetchExact(h)
  \/ \E h \in Tasks : ReturnNothing(h)
  \/ \E h \in Tasks, kind \in Kinds, seconds \in 0..MaxWait :
       SendResponds(h, kind, seconds)
  \/ \E h \in Tasks : Retry(h)
  \/ \E h \in Tasks : NextMessage(h)
  \/ \E peer_id \in BurstPeers, position \in 0..MaxStart :
       InitializeReadPosition(peer_id, position)

SpecExact == InitExact /\ [][NextExact]_vars

\* ------------------------------------------------------------ properties
Range(s) == { s[i] : i \in DOMAIN s }

Max(S) == CHOOSE x \in S : \A y \in S : y <= x

Ascending(s) == \A i, j \in DOMAIN s : i < j => s[i] < s[j]

\* task h has left get_messages_in_range in this step
Fetched(h) == task[h].pc = "fetching" /\ task'[h].pc # "fetching"

\* task h has passed the test of line 166 in this step
Checked(h) == task[h].pc = "started" /\ task'[h].pc # "started"
              /\ should_watch(task[h].peer_id)

\* task h holds the frame FinishFetch left: it has not run since
Fresh(h) == \/ task[h].pc = "return"
            \/ task[h].pc = "sending" /\ task[h].idx = 1 /\ task[h].calls = 1

\* task h has invoked add_reaction from the loop in this step
Invoked(h) == /\ task[h].pc \in {"fetching", "delay"}
              /\ task'[h].pc = "sending"

\* C1: over the whole run add_reaction is invoked from process_read_update at
\* most once for each (conversation, message id) pair, whatever read updates
\* arrive, duplicates and overlapping ranges included.
C1_AtMostOnce ==
  \A i, j \in DOMAIN dispatched : dispatched[i] = dispatched[j] => i = j

\* C1 witness: a later update of the chat resolved a range that overlaps an
\* earlier one, and the ids already starred were left out of its dispatch.
C1_Witness ==
  \E h \in Tasks :
    /\ Fresh(h)
    /\ \E i \in DOMAIN task[h].message_ids :
         /\ task[h].message_ids[i] \notin Range(task[h].messages_to_star)
         /\ \E k \in DOMAIN dispatched :
              dispatched[k] = <<task[h].peer_id, task[h].message_ids[i]>>

\* the read updates of peer p that have passed the lock and the test of line 166
Seen(p) ==
  { task[h].max_id : h \in { g \in Tasks : /\ task[g].peer_id = p
                                           /\ task[g].pc \notin {"idle", "started"}
                                           /\ task[g].path # "unwatched" } }

\* C2: when a read update of a watched conversation has been processed, the
\* recorded position is the largest of the position the conversation started
\* with and the read updates processed so far.
C2_WatermarkIsMax ==
  [][\A h \in Tasks :
       Checked(h) =>
         last_read_ids'[task[h].peer_id] =
           Max({start_read_ids'[task[h].peer_id]} \cup Seen(task[h].peer_id)')]_vars

\* C3: a read update whose max_id is not above the recorded position ends the
\* handler at once: no position, no starred pair and no dispatch changes, the
\* range is not resolved and the lock is free again.
C3_StaleIsNoOp ==
  [][\A h \in Tasks :
       (Checked(h) /\ task[h].max_id <= last_read_ids[task[h].peer_id]) =>
         /\ last_read_ids' = last_read_ids
         /\ starred_messages' = starred_messages
         /\ dispatched' = dispatched
         /\ update_lock' = update_lock
         /\ task'[h].pc = "done"]_vars

\* C3 witness: a handler returned by the stale path from a non-zero position.
C3_Witness ==
  \E h \in Tasks : /\ task[h].pc = "done" /\ task[h].path = "stale"
                   /\ last_read_ids[task[h].peer_id] >= task[h].max_id
                   /\ last_read_ids[task[h].peer_id] > 0

\* C4: the first read update of a conversation whose recorded position is 0
\* records max_id and ends the handler: nothing is resolved, starred or
\* dispatched.
C4_FirstSeenOnlyRecords ==
  [][\A h \in Tasks :
       (Checked(h) /\ last_read_ids[task[h].peer_id] = 0 /\ task[h].max_id > 0) =>
         /\ last_read_ids'[task[h].peer_id] = task[h].max_id
         /\ starred_messages' = starred_messages
         /\ dispatched' = dispatched
         /\ update_lock' = update_lock
         /\ task'[h].pc = "done"]_vars

\* C4 witness: a handler returned by the first-seen path and its max_id is the
\* position recorded.
C4_Witness ==
  \E h \in Tasks : /\ task[h].pc = "done" /\ task[h].path = "first_seen"
                   /\ last_read_ids[task[h].peer_id] = task[h].max_id
                   /\ starred_messages = {} /\ dispatched = <<>>

\* C5: when iter_messages does not fail, get_messages_in_range returns the
\* yielded ids of (last_read, max_id] in ascending order, none left out; the
\* ids selected are those not starred before, each is passed to add_reaction
\* in turn, and the handler ends only after the last one.
C5_ResolveAndDispatch ==
  [][\A h \in Tasks :
       /\ (Fetched(h) /\ ~task'[h].failed) =>
            /\ Ascending(task'[h].message_ids)
            /\ Range(task'[h].message_ids) =
                 { id \in Range(task'[h].yielded) :
                     task[h].last_read < id /\ id <= task[h].max_id }
            /\ Ascending(task'[h].messages_to_star)
            /\ Range(task'[h].messages_to_star) =
                 { id \in Range(task'[h].message_ids) :
                     <<task[h].peer_id, id>> \notin starred_messages }
            /\ task'[h].messages_to_star # <<>> =>
                 task'[h].pc = "sending" /\ task'[h].idx = 1
       /\ Invoked(h) =>
            dispatched' = Append(dispatched,
                            <<task[h].peer_id,
                              task'[h].messages_to_star[task[h].idx + 1]>>)
       /\ (task[h].pc = "delay" /\ task'[h].pc = "done") =>
            /\ task[h].idx = Len(task[h].messages_to_star)
            /\ \A i \in DOMAIN task[h].messages_to_star :
                 <<task[h].peer_id, task[h].messages_to_star[i]>> \in Range(dispatched)]_vars

\* C5 witness: from position 1 an update to 3 selected <<2, 3>> and both ids
\* have been passed to add_reaction.
C5_Witness ==
  \E h \in Tasks :
    /\ task[h].pc = "delay" /\ task[h].last_read = 1 /\ task[h].max_id = 3
    /\ task[h].messages_to_star = <<2, 3>> /\ task[h].idx = 2
    /\ <<task[h].peer_id, 2>> \in Range(dispatched)
    /\ <<task[h].peer_id, 3>> \in Range(dispatched)

\* C6: every id get_messages_in_range returns lies in (from_id, to_id], also
\* when the backend yields ids outside the window and when it fails.
C6_InBound ==
  \A h \in Tasks : \A i \in DOMAIN task[h].message_ids :
    /\ task[h].last_read < task[h].message_ids[i]
    /\ task[h].message_ids[i] <= task[h].max_id

\* C6 witness: the backend yielded an id at the lower end of the window and one
\* inside it, and only the latter was returned.
C6_Witness ==
  \E h \in Tasks :
    /\ Fresh(h) /\ ~task[h].failed
    /\ task[h].last_read \in Range(task[h].yielded)
    /\ task[h].message_ids # <<>>

\* C7: when iter_messages fails, get_messages_in_range returns <<to_id>> alone
\* and the handler releases the lock and goes on to dispatch that id.
C7_FallbackDispatched ==
  [][\A h \in Tasks :
       (Fetched(h) /\ task'[h].failed) =>
         /\ task'[h].message_ids = <<task[h].max_id>>
         /\ update_lock' = 0
         /\ task'[h].messages_to_star = <<task[h].max_id>>
         /\ dispatched' = Append(dispatched, <<task[h].peer_id, task[h].max_id>>)]_vars

\* C8: within one add_reaction invocation a sleep follows a FloodWaitError
\* only, lasts the seconds the error names, and is followed by one more
\* request for the same conversation and message: the requests sent are the
\* rate-limited responses plus one.
C8_RetryOnFloodOnly ==
  \A h \in Tasks :
    /\ task[h].pc = "flood_sleep" =>
         /\ task[h].result = "FloodWaitError"
         /\ task[h].sleep_for = task[h].seconds
         /\ task[h].calls = task[h].floods
    /\ task[h].pc = "sending" =>
         /\ task[h].calls = task[h].floods + 1
         /\ task[h].request = <<task[h].peer_id,
                                task[h].messages_to_star[task[h].idx]>>
    /\ task[h].pc = "delay" =>
         /\ task[h].result # "FloodWaitError"
         /\ task[h].calls = task[h].floods + 1

\* C8 witness: an invocation was rate limited twice and ended on its third
\* request.
C8_Witness ==
  \E h \in Tasks : /\ task[h].pc = "delay" /\ task[h].floods = 2
                   /\ task[h].calls = 3

\* C9: once a request for a conversation raised ReactionInvalidError, the next
\* add_reaction for it asks for the reaction policy before it sends.
C9_RequeryAfterInvalid ==
  [][\A h \in Tasks :
       (Invoked(h) /\ task[h].peer_id \in rejected) =>
         policy_queries'[task[h].peer_id] > policy_queries[task[h].peer_id]]_vars

\* C10: no SendReactionRequest is issued for a conversation whose reaction
\* policy does not allow REACTION.
C10_NoSendWhenDisallowed ==
  \A h \in Tasks :
    task[h].pc = "sending" => task[h].peer_id \notin RestrictedPeers

\* C11: add_reaction ends with a boolean and without raising: True exactly
\* when the request succeeded, False for every error that is not a rate
\* limit, and such a result ends the invocation with no further request.
C11_ReturnsBoolean ==
  \A h \in Tasks :
    /\ task[h].pc = "delay" =>
         /\ task[h].result \in Terminal \cup {"Success"}
         /\ task[h].ret \in BOOLEAN
         /\ task[h].ret = (task[h].result = "Success")
    /\ task[h].pc \in {"sending", "flood_sleep"} =>
         /\ task[h].result \in {"none", "FloodWaitError"}
         /\ task[h].ret = "none"

\* C11 witness: one invocation ended with False on its first request, which
\* raised ChannelPrivateError, and another ended with True.
C11_Witness ==
  \E g, h \in Tasks :
    /\ task[g].pc = "delay" /\ task[g].result = "ChannelPrivateError"
    /\ task[g].ret = FALSE /\ task[g].calls = 1
    /\ task[h].pc = "delay" /\ task[h].result = "Success" /\ task[h].ret = TRUE

\* C12: the ids one handler passes to add_reaction are in strictly ascending
\* order, whatever the order iter_messages yielded them in.
C12_AscendingPerUpdate ==
  \A h \in Tasks :
    /\ Ascending(task[h].messages_to_star)
    /\ Ascending(task[h].reacted)
    /\ task[h].pc \in {"sending", "flood_sleep", "delay"} =>
         task[h].reacted = SubSeq(task[h].messages_to_star, 1, task[h].idx)

\* C12 witness: the backend yielded <<3, 2>> and 2 was passed to add_reaction
\* first.
C12_Witness ==
  \E h \in Tasks : /\ Fresh(h) /\ task[h].yielded = <<3, 2>>
                   /\ task[h].messages_to_star = <<2, 3>>
                   /\ task[h].reacted = <<2>>

\* C13: when add_reaction returns False for a selected id, the loop goes on
\* to the next one: the handler ends only when every selected id has been
\* passed to add_reaction.
C13_FailureDoesNotStop ==
  [][\A h \in Tasks :
       (task[h].pc = "delay" /\ task'[h].pc # "delay") =>
         IF task[h].idx < Len(task[h].messages_to_star)
         THEN /\ task'[h].pc = "sending"
              /\ task'[h].reacted =
                   SubSeq(task[h].messages_to_star, 1, task[h].idx + 1)
         ELSE /\ task'[h].pc = "done"
              /\ task[h].reacted = task[h].messages_to_star]_vars

\* C13 witness: the only handler that ran had its first request fail with
\* ReactionInvalidError and has invoked add_reaction for its second id.
C13_Witness ==
  \E h \in Tasks :
    /\ task[h].pc = "sending" /\ task[h].idx = 2
    /\ task[h].peer_id \in rejected
    /\ \A g \in Tasks : g # h /\ task[g].peer_id = task[h].peer_id =>
                          task[g].path = "first_seen"

\* C14: the position recorded for a conversation never decreases, whatever
\* the interleaving of initialize_read_positions with the handlers.
C14_NeverDecreases ==
  [][\A p \in Peers : last_read_ids'[p] >= last_read_ids[p]]_vars

\* C16: update_lock is not held while a SendReactionRequest, a rate-limit
\* sleep or the delay between two reactions is in progress, so a read update
\* of another conversation can take the lock meanwhile.
C16_LockFreeWhileDispatching ==
  \A h \in Tasks :
    task[h].pc \in {"sending", "flood_sleep", "delay"} => update_lock # h

\* C16 witness: while an earlier handler waits for its SendReactionRequest,
\* the handler of a later update of another conversation has taken the lock,
\* advanced its position and is resolving its range.
C16_Witness ==
  \E g, h \in Tasks :
    /\ h < g /\ task[h].peer_id # task[g].peer_id
    /\ task[h].pc = "sending"
    /\ task[g].pc = "fetching" /\ update_lock = g
    /\ last_read_ids[task[g].peer_id] = task[g].max_id

\* C17: when iter_messages does not fail and yields no id of
\* (last_read, max_id], with 0 < last_read < max_id, the handler, which
\* advanced the position to max_id before resolving, returns without a
\* dispatch, without the fallback to max_id and without a new starred pair,
\* and does not touch the position again.
C17_EmptyRangeIsNoOp ==
  [][\A h \in Tasks :
       /\ (Checked(h) /\ task'[h].pc = "fetching") =>
            /\ 0 < last_read_ids[task[h].peer_id]
            /\ last_read_ids[task[h].peer_id] < task[h].max_id
            /\ last_read_ids'[task[h].peer_id] = task[h].max_id
       /\ ( /\ Fetched(h) /\ ~task'[h].failed
            /\ \A i \in DOMAIN task'[h].yielded :
                 ~ ( /\ task[h].last_read < task'[h].yielded[i]
                     /\ task'[h].yielded[i] <= task[h].max_id ) ) =>
            /\ task'[h].pc = "return" /\ task'[h].path = "empty"
            /\ task'[h].message_ids = <<>>
            /\ dispatched' = dispatched
            /\ starred_messages' = starred_messages
            /\ last_read_ids' = last_read_ids
       /\ (task[h].pc = "return" /\ task'[h].pc # "return") =>
            /\ task'[h].pc = "done"
            /\ dispatched' = dispatched
            /\ starred_messages' = starred_messages
            /\ last_read_ids' = last_read_ids]_vars

\* C17 witness: an update from position 1 to 3 found no message in (1, 3]:
\* nothing is starred or dispatched and the position is 3.
C17_Witness ==
  \E h \in Tasks :
    /\ task[h].pc = "return" /\ task[h].path = "empty" /\ ~task[h].failed
    /\ task[h].last_read = 1 /\ task[h].max_id = 3
    /\ task[h].yielded = <<1>>
    /\ last_read_ids[task[h].peer_id] = 3
    /\ starred_messages = {} /\ dispatched = <<>>

\* the ids passed to add_reaction for conversation p, in order
DispatchedOf(p) ==
  LET of_p == SelectSeq(dispatched, LAMBDA d : d[1] = p)
  IN  [i \in DOMAIN of_p |-> of_p[i][2]]

\* initialize_read_positions recorded a non-zero position for p before any
\* handler passed line 166 for it: no handler found the position 0
InitializedFirst(p) ==
  /\ start_read_ids[p] # 0
  /\ \A h \in Tasks : task[h].peer_id = p => task[h].path # "first_seen"

\* C15: over the whole run the ids passed to add_reaction for one
\* conversation are in ascending order, also when a later update enters the
\* critical section while an earlier handler is still in its dispatch loop.
\* Stated for the conversations whose position was initialized before their
\* first update was handled, where no startup write interferes.
C15_AscendingPerChat ==
  \A p \in Peers : InitializedFirst(p) => Ascending(DispatchedOf(p))

\* C18: every id passed to add_reaction for a conversation is above the first
\* non-zero position recorded for it and at most the position recorded at the
\* time of the invocation, and the pair is in starred_messages by then.
C18_AboveFirstPosition ==
  [][\A h \in Tasks :
       Invoked(h) =>
         LET c == task[h].peer_id
             m == task'[h].request[2]
         IN  /\ m > first_read_ids'[c]
             /\ m <= last_read_ids'[c]
             /\ <<c, m>> \in starred_messages']_vars

\* the ids task h has selected and not yet passed to add_reaction
Pending(h) ==
  IF task[h].pc \in {"sending", "flood_sleep", "delay"}
  THEN { task[h].messages_to_star[i] :
           i \in { j \in DOMAIN task[h].messages_to_star : j > task[h].idx } }
  ELSE {}

\* C19: with an iter_messages that never fails and a history that does not
\* change, whenever no handler is inside the critical section, every existing
\* id above the non-zero position the conversation started with and at most
\* the recorded position is in starred_messages, and every starred pair was
\* selected once: it has been passed to add_reaction once or is still to be
\* passed by the one handler that selected it.
C19_NoneSkipped ==
  update_lock = 0 =>
    \A p \in Peers :
      /\ start_read_ids[p] # 0 =>
           \A id \in history[p] :
             (start_read_ids[p] < id /\ id <= last_read_ids[p]) =>
               <<p, id>> \in starred_messages
      /\ \A id \in ExactIds :
           <<p, id>> \in starred_messages =>
             Cardinality({ i \in DOMAIN dispatched : dispatched[i] = <<p, id>> })
               + Cardinality({ h \in Tasks : task[h].peer_id = p
                                              /\ id \in Pending(h) }) = 1

\* C19 witness: from the starting position 1, updates to 2, to 4 and again
\* to 3 have been handled in a chat that holds 2 and 4 but not 3, and both
\* ids are starred.
C19_Witness ==
  /\ update_lock = 0 /\ start_read_ids[1] = 1 /\ history[1] = {1, 2, 4}
  /\ last_read_ids[1] = 4
  /\ starred_messages = {<<1, 2>>, <<1, 4>>}
  /\ \E f, g, h \in Tasks :
       /\ task[f].max_id = 2 /\ task[g].max_id = 4 /\ task[h].max_id = 3
       /\ task[f].path = "selected" /\ task[g].path = "selected"
       /\ task[h].path = "stale"

\* Read updates of one watched chat under fair scheduling: the event loop
\* resumes every handler that can go on (a handler waiting for update_lock
\* when the lock is free included), every backend call returns, and an
\* add_reaction invocation is rate limited MaxFlood times at most.
InitFair == InitWith(MaxSignals, BurstPeers) /\ history = [p \in Peers |-> Ids]

Fairness ==
  \A h \in 1..MaxSignals :
    /\ WF_vars(ReturnStale(h) \/ ReturnFirstSeen(h) \/ StartFetch(h))
    /\ WF_vars(\E yielded \in Responses, failed \in BOOLEAN :
                 FinishFetch(h, yielded, failed))
    /\ WF_vars(ReturnNothing(h))
    /\ WF_vars(\E kind \in Kinds, seconds \in 0..MaxWait :
                 SendResponds(h, kind, seconds))
    /\ WF_vars(Retry(h))
    /\ WF_vars(NextMessage(h))

SpecFair == InitFair /\ [][NextBurst]_vars /\ Fairness

\* C20: update_lock is held only by a handler that is inside
\* get_messages_in_range, every way out of the with block leaves it free,
\* and under fair scheduling every handler that was started ends.
C20_HandlersTerminate ==
  /\ [](\A h \in 1..MaxSignals : update_lock = h => task[h].pc = "fetching")
  /\ [](update_lock \in 0..MaxSignals)
  /\ \A h \in 1..MaxSignals : (task[h].pc = "started") ~> (task[h].pc = "done")

\* C20 witness: a handler whose iter_messages failed has ended after its
\* dispatch, another has ended by the empty path, and the lock is free.
C20_Witness ==
  \E g, h \in Tasks :
    /\ task[g].pc = "done" /\ task[g].path = "selected"
    /\ task[h].pc = "done" /\ task[h].path = "empty"
    /\ update_lock = 0

====
